---- MODULE Spec2Model ----
(***************************************************************************)
(* Model of img_edge_detector/edge_detect.py (class EdgeDetectLib).        *)
(*                                                                         *)
(* A raster (NumPy 2-D array) is a sequence of rows, each a sequence of    *)
(* integers.  TLA+ sequences are 1-based; the operators below that carry   *)
(* Python indices take them 0-based and go through At.                     *)
(* Each library function is one action; its inputs are drawn by the        *)
(* initial predicate of the specification that exercises it.               *)
(***************************************************************************)
EXTENDS Integers, Sequences, FiniteSets, TLC

VARIABLES pc,             \* which call is pending / "done"
          in_np_arr,      \* the array handed to the function under study
          conv_kernel_np, \* kernel argument of apply_conv_kernel
          arr_padded,     \* arr_padded of apply_conv_kernel once np.pad has run
          strong_pxls,    \* local strong_pxls of apply_edge_tracking
          weak_pxls,      \* local weak_pxls of apply_edge_tracking
          ret,            \* the returned array, NoArr when nothing returned
          err,            \* name of the exception raised, "none" otherwise
          calls,          \* number of completed rectify_and_clip calls
          prev,           \* result of the previous rectify_and_clip call
          file,           \* content of the PGM file, a sequence of bytes
          enc,            \* text encoding the interpreter picks for open(.., "w")
          hdr             \* how the input file of the reader was put together

vars == <<pc, in_np_arr, conv_kernel_np, arr_padded, strong_pxls, weak_pxls,
          ret, err, calls, prev, file, enc, hdr>>

-----------------------------------------------------------------------------
(* Bounds of the model *)

MaxDim == 4        \* rasters of the pixel stages are at most MaxDim x MaxDim
MaxSpots == 3      \* at most this many samples differ from the background
MaxRectDim == 2    \* rasters handed to rectify_and_clip
MaxPgmDim == 2     \* rasters written to / declared in PGM files
MaxRasterLen == 5  \* raw bytes following a hand-made PGM header

(* Program constants *)

THRESH_HI == 80
THRESH_LO == 40
MAX_VAL == 255
LAPLACIAN == << <<-1, -1, -1>>, <<-1, 8, -1>>, <<-1, -1, -1>> >>

NoArr == << >>
NoHdr == [layout |-> "none", wd |-> 0, ht |-> 0, raster |-> << >>]

-----------------------------------------------------------------------------
(* NumPy helpers *)

Height(a) == Len(a)
Width(a) == IF Len(a) = 0 THEN 0 ELSE Len(a[1])
Shape(a) == <<Height(a), Width(a)>>
At(a, y, x) == a[y + 1][x + 1]
Clamp(i, lo, hi) == IF i < lo THEN lo ELSE IF i > hi THEN hi ELSE i
SetMax(S) == CHOOSE m \in S : \A s \in S : s <= m
SetMin(S) == CHOOSE m \in S : \A s \in S : m <= s

\* np.pad(a, (1, 1), "edge"): one replicated row/column on every side
NpPadEdge(a) ==
    [y \in 1..(Height(a) + 2) |->
        [x \in 1..(Width(a) + 2) |->
            a[Clamp(y - 1, 1, Height(a))][Clamp(x - 1, 1, Width(a))]]]

\* a + b, elementwise
NpAdd(a, b) == [y \in 1..Height(a) |-> [x \in 1..Width(a) |-> a[y][x] + b[y][x]]]

-----------------------------------------------------------------------------
(* Input rasters *)

Cells(h, w) == (1..h) \X (1..w)

RECURSIVE SubsetsUpTo(_, _)
SubsetsUpTo(S, k) ==
    IF k = 0 \/ S = {} THEN {{}}
    ELSE LET e == CHOOSE c \in S : TRUE
             rest == S \ {e}
         IN  SubsetsUpTo(rest, k) \cup {T \cup {e} : T \in SubsetsUpTo(rest, k - 1)}

\* the h x w raster that holds f on the cells of T and bg elsewhere
Sparse(h, w, bg, T, f) ==
    [y \in 1..h |-> [x \in 1..w |-> IF <<y, x>> \in T THEN f[<<y, x>>] ELSE bg]]

\* a is one of the bounded input rasters: at most maxdim x maxdim, flat at a
\* background value of bgs except for at most MaxSpots samples, which take
\* other values of vals
IsInputRaster(a, maxdim, bgs, vals) ==
    \E h \in 1..maxdim, w \in 1..maxdim, bg \in bgs :
        \E T \in SubsetsUpTo(Cells(h, w), MaxSpots) :
            \E f \in [T -> vals \ {bg}] : a = Sparse(h, w, bg, T, f)

-----------------------------------------------------------------------------
(* apply_conv_kernel *)

\* np.sum(arr_padded[y:y+3, x:x+3] * conv_kernel_np)
StencilSum(p, k, y, x) ==
      At(p, y, x) * At(k, 0, 0) + At(p, y, x + 1) * At(k, 0, 1) + At(p, y, x + 2) * At(k, 0, 2)
    + At(p, y + 1, x) * At(k, 1, 0) + At(p, y + 1, x + 1) * At(k, 1, 1) + At(p, y + 1, x + 2) * At(k, 1, 2)
    + At(p, y + 2, x) * At(k, 2, 0) + At(p, y + 2, x + 1) * At(k, 2, 1) + At(p, y + 2, x + 2) * At(k, 2, 2)

\* the two nested loops: range(shape[0] - 2) x range(shape[1] - 2)
ConvLoop(a, p, k) ==
    [y \in 1..Height(a) |->
        [x \in 1..Width(a) |->
            IF (y - 1) \in 0..(Height(a) - 3) /\ (x - 1) \in 0..(Width(a) - 3)
            THEN StencilSum(p, k, y - 1, x - 1)
            ELSE 0]]

\* The message of the shape error is an f-string that evaluates
\* conv_kernel_np.shape(); shape is a tuple, so building the message raises
\* TypeError and the raise statement on the next line is never reached.
KernelShapeError == "TypeError"

apply_conv_kernel(a, k) ==
    LET p == NpPadEdge(a)
    IN  IF Shape(k) # <<3, 3>>
        THEN [padded |-> p, err |-> KernelShapeError, ret |-> NoArr]
        ELSE [padded |-> p, err |-> "none", ret |-> ConvLoop(a, p, k)]

-----------------------------------------------------------------------------
(* apply_edge_thinning *)

\* body of the loops for one (y, x), Python indices
ThinPreserve(p, y, x) ==
    LET center_pxl == At(p, y, x)
        x_run == {At(p, y, j) : j \in (x - 1)..(x + 1)}
        y_run == {At(p, i, x) : i \in (y - 1)..(y + 1)}
        strongest_x_pos == center_pxl >= SetMax(x_run)
        strongest_x_neg == center_pxl <= SetMin(x_run)
        strongest_y_pos == center_pxl >= SetMax(y_run)
        strongest_y_neg == center_pxl <= SetMin(y_run)
    IN  strongest_x_pos \/ strongest_x_neg \/ strongest_y_pos \/ strongest_y_neg

\* slip: the compared sample is stored instead of in_np_arr[y][x]
ThinKeptCentre(a, p, y, x) == At(p, y, x)

\* value stored in arr_thinned[y][x] when the pixel is preserved
ThinKept(a, p, y, x) == At(a, y, x)

apply_edge_thinning(a) ==
    LET p == NpPadEdge(a)
    IN  [y \in 1..Height(a) |->
            [x \in 1..Width(a) |->
                IF (y - 1) \in 1..(Height(a) - 2) /\ (x - 1) \in 1..(Width(a) - 2)
                   /\ ThinPreserve(p, y - 1, x - 1)
                THEN ThinKept(a, p, y - 1, x - 1)
                ELSE 0]]

-----------------------------------------------------------------------------
(* apply_edge_tracking *)

Interior(a, y, x) == y \in 1..(Height(a) - 2) /\ x \in 1..(Width(a) - 2)

StrongPass(a, p) ==
    [y \in 1..Height(a) |->
        [x \in 1..Width(a) |->
            IF Interior(a, y - 1, x - 1)
               /\ (At(p, y - 1, x - 1) > THRESH_HI \/ At(p, y - 1, x - 1) < -THRESH_HI)
            THEN a[y][x]
            ELSE 0]]

\* np.any(strong_pxls[y-1:y+2, x-1:x+2]), Python indices of an interior pixel
AnyStrongAround(s, y, x) ==
    \E i \in (y - 1)..(y + 1), j \in (x - 1)..(x + 1) : At(s, i, j) # 0

WeakPass(a, p, s) ==
    [y \in 1..Height(a) |->
        [x \in 1..Width(a) |->
            IF ~Interior(a, y - 1, x - 1) THEN 0
            ELSE IF s[y][x] > 0 THEN 0
            ELSE IF (At(p, y - 1, x - 1) > THRESH_LO \/ At(p, y - 1, x - 1) < -THRESH_LO)
                    /\ AnyStrongAround(s, y - 1, x - 1)
                 THEN a[y][x]
                 ELSE 0]]

apply_edge_tracking(a) ==
    LET p == NpPadEdge(a)
        s == StrongPass(a, p)
        w == WeakPass(a, p, s)
    IN  [strong |-> s, weak |-> w, ret |-> NpAdd(s, w)]

-----------------------------------------------------------------------------
(* rectify_and_clip *)

\* slip: negation instead of the absolute value
NpNegate(v) == -v

NpAbs(v) == IF v < 0 THEN -v ELSE v
PyMin(a, b) == IF b < a THEN b ELSE a

rectify_and_clip(a) ==
    [y \in 1..Height(a) |-> [x \in 1..Width(a) |-> PyMin(NpAbs(a[y][x]), MAX_VAL)]]

-----------------------------------------------------------------------------
(* Bytes and text.  A file is a sequence of bytes 0..255; a decoded line is *)
(* a sequence of code points.                                               *)

NL == 10
SP == 32
HASH == 35
MAGIC_P5 == <<80, 53>>

\* f"{n}" for a non-negative integer: its decimal digits
RECURSIVE DecStr(_)
DecStr(n) == IF n < 10 THEN <<48 + n>> ELSE DecStr(n \div 10) \o <<48 + (n % 10)>>

\* the bytes that out_fh.write(chr(p)) puts in a text-mode file, 0 <= p <= 255
EncodeChr(p, e) ==
    IF e = "utf-8" /\ p >= 128
    THEN <<192 + (p \div 64), 128 + (p % 64)>>
    ELSE <<p>>

\* np.ndarray.flatten: the samples in row-major order
RECURSIVE Flatten(_)
Flatten(a) == IF a = << >> THEN << >> ELSE Head(a) \o Flatten(Tail(a))

RECURSIVE EncodeAll(_, _)
EncodeAll(ps, e) ==
    IF ps = << >> THEN << >> ELSE EncodeChr(Head(ps), e) \o EncodeAll(Tail(ps), e)

\* bytes.decode() of one line: 1- and 2-byte UTF-8 forms; every other byte
\* sequence is reported as undecodable (the files of this model hold no
\* 3- or 4-byte form)
RECURSIVE Decode(_)
Decode(bs) ==
    IF bs = << >> THEN [ok |-> TRUE, chars |-> << >>]
    ELSE IF bs[1] < 128
         THEN LET r == Decode(Tail(bs))
              IN  [ok |-> r.ok, chars |-> <<bs[1]>> \o r.chars]
    ELSE IF bs[1] \in 194..223 /\ Len(bs) >= 2 /\ bs[2] \in 128..191
         THEN LET r == Decode(SubSeq(bs, 3, Len(bs)))
              IN  [ok |-> r.ok, chars |-> <<(bs[1] - 192) * 64 + (bs[2] - 128)>> \o r.chars]
    ELSE [ok |-> FALSE, chars |-> << >>]

\* code points below 256 that the regex class \s matches
IsSpace(c) == c \in (9..13) \cup (28..32) \cup {133, 160}

\* re.search(r"^\s*#", line)
RECURSIVE IsComment(_)
IsComment(cs) ==
    IF cs = << >> THEN FALSE
    ELSE IF cs[1] = HASH THEN TRUE
    ELSE IF IsSpace(cs[1]) THEN IsComment(Tail(cs))
    ELSE FALSE

\* re.findall(r"\S+", line): the maximal runs of non-space characters
RECURSIVE FindTokens(_, _)
FindTokens(cs, cur) ==
    IF cs = << >> THEN (IF cur = << >> THEN << >> ELSE <<cur>>)
    ELSE IF IsSpace(cs[1])
         THEN (IF cur = << >> THEN << >> ELSE <<cur>>) \o FindTokens(Tail(cs), << >>)
         ELSE FindTokens(Tail(cs), Append(cur, cs[1]))

\* str.isdigit() for code points below 256: the ASCII digits and the
\* superscripts two, three and one
IsDigitStr(t) == t # << >> /\ \A i \in 1..Len(t) : t[i] \in (48..57) \cup {178, 179, 185}

\* int() accepts only the decimal digits among them
IntOk(t) == \A i \in 1..Len(t) : t[i] \in 48..57

RECURSIVE PyInt(_)
PyInt(t) == IF t = << >> THEN 0 ELSE PyInt(SubSeq(t, 1, Len(t) - 1)) * 10 + (t[Len(t)] - 48)

-----------------------------------------------------------------------------
(* convert_np_arr_to_pgm *)

convert_np_arr_to_pgm(a, e) ==
       MAGIC_P5 \o <<NL>>
    \o DecStr(Width(a)) \o <<NL>>
    \o DecStr(Height(a)) \o <<NL>>
    \o DecStr(MAX_VAL) \o <<NL>>
    \o EncodeAll(Flatten(a), e)
    \o <<NL>>

-----------------------------------------------------------------------------
(* convert_pgm_to_np_arr *)

\* index of the last byte of the line that starts at pos: "for line in in_fh"
\* on a binary file cuts after every byte 10
RECURSIVE LineEnd(_, _)
LineEnd(f, pos) ==
    IF pos >= Len(f) \/ f[pos] = NL THEN pos ELSE LineEnd(f, pos + 1)

\* the header loop from byte pos on, with the strings collected so far;
\* yields the strings and the position of the first byte not consumed
RECURSIVE HeaderLoop(_, _, _)
HeaderLoop(f, pos, strings) ==
    IF pos > Len(f) THEN [err |-> "none", strings |-> strings, pos |-> pos]
    ELSE LET e == LineEnd(f, pos)
             line == Decode(SubSeq(f, pos, e))
             got == IF IsComment(line.chars) THEN strings
                    ELSE IF Len(strings) < 4 THEN strings \o FindTokens(line.chars, << >>)
                    ELSE strings
         IN  IF ~line.ok THEN [err |-> "UnicodeDecodeError", strings |-> strings, pos |-> pos]
             ELSE IF Len(got) >= 4 THEN [err |-> "none", strings |-> got, pos |-> e + 1]
             ELSE HeaderLoop(f, e + 1, got)

\* slip: the bounds test stops one byte early
RasterLoopDropsLast(buf, wd, ht) ==
    [y \in 1..ht |->
        [x \in 1..wd |->
            LET pos == (y - 1) * wd + (x - 1)
            IN  IF pos < Len(buf) - 1 THEN buf[pos + 1] ELSE 0]]

\* the two loops that split buf into ht rows of wd samples
RasterLoop(buf, wd, ht) ==
    [y \in 1..ht |->
        [x \in 1..wd |->
            LET pos == (y - 1) * wd + (x - 1)
            IN  IF pos < Len(buf) THEN buf[pos + 1] ELSE 0]]

Failed(e) == [err |-> e, ret |-> NoArr]

convert_pgm_to_np_arr(f) ==
    LET h == HeaderLoop(f, 1, << >>)
        magic_num == h.strings[1]
        wd == h.strings[2]
        ht == h.strings[3]
        max_val == h.strings[4]
        buf == SubSeq(f, h.pos, Len(f))
    IN  IF h.err # "none" THEN Failed(h.err)
        ELSE IF Len(h.strings) # 4 THEN Failed("Exception: header")
        ELSE IF magic_num # MAGIC_P5 THEN Failed("Exception: magic number")
        ELSE IF ~(IsDigitStr(wd) /\ IsDigitStr(ht)) THEN Failed("Exception: width and height")
        ELSE IF ~(IntOk(wd) /\ IntOk(ht)) THEN Failed("ValueError")
        ELSE IF ~IsDigitStr(max_val) THEN Failed("Exception: maximum grey value")
        ELSE IF ~IntOk(max_val) THEN Failed("ValueError")
        ELSE [err |-> "none", ret |-> RasterLoop(buf, PyInt(wd), PyInt(ht))]

-----------------------------------------------------------------------------
(* Inputs of the pixel stages *)

K_ASYM == << <<1, 2, 3>>, <<4, 5, 6>>, <<7, 8, 9>> >>
K_2x2 == << <<1, -1>>, <<-1, 1>> >>
K_3x2 == << <<1, -1>>, <<0, 0>>, <<-1, 1>> >>
Kernels == {LAPLACIAN, K_ASYM, K_2x2, K_3x2}

ConvVals == {0, 1, 255}
ThinVals == {-1, 0, 1}
TrackVals == {-100, 0, 5, 50, 100}
RectVals == {-300, -256, -7, 0, 7, 255, 300}

Idle ==
    /\ conv_kernel_np = NoArr /\ arr_padded = NoArr
    /\ strong_pxls = NoArr /\ weak_pxls = NoArr
    /\ ret = NoArr /\ err = "none" /\ calls = 0 /\ prev = NoArr
    /\ file = << >> /\ enc = "none" /\ hdr = NoHdr

-----------------------------------------------------------------------------
(* Convolution stage *)

InitConv ==
    /\ pc = "apply_conv_kernel"
    /\ IsInputRaster(in_np_arr, MaxDim, {0}, ConvVals)
    /\ conv_kernel_np \in Kernels
    /\ arr_padded = NoArr
    /\ strong_pxls = NoArr /\ weak_pxls = NoArr
    /\ ret = NoArr /\ err = "none" /\ calls = 0 /\ prev = NoArr
    /\ file = << >> /\ enc = "none" /\ hdr = NoHdr

ApplyConvKernel ==
    /\ pc = "apply_conv_kernel"
    /\ LET r == apply_conv_kernel(in_np_arr, conv_kernel_np)
       IN  /\ arr_padded' = r.padded
           /\ err' = r.err
           /\ ret' = r.ret
    /\ pc' = "done"
    /\ UNCHANGED <<in_np_arr, conv_kernel_np, strong_pxls, weak_pxls, calls, prev,
                   file, enc, hdr>>

SpecConv == InitConv /\ [][ApplyConvKernel]_vars

-----------------------------------------------------------------------------
(* Thinning stage *)

InitThin ==
    /\ pc = "apply_edge_thinning"
    /\ IsInputRaster(in_np_arr, MaxDim, {1}, ThinVals)
    /\ Idle

ApplyEdgeThinning ==
    /\ pc = "apply_edge_thinning"
    /\ ret' = apply_edge_thinning(in_np_arr)
    /\ pc' = "done"
    /\ UNCHANGED <<in_np_arr, conv_kernel_np, arr_padded, strong_pxls, weak_pxls, err,
                   calls, prev, file, enc, hdr>>

SpecThin == InitThin /\ [][ApplyEdgeThinning]_vars

-----------------------------------------------------------------------------
(* Hysteresis stage *)

InitTrack ==
    /\ pc = "apply_edge_tracking"
    /\ IsInputRaster(in_np_arr, MaxDim, {0}, TrackVals)
    /\ Idle

ApplyEdgeTracking ==
    /\ pc = "apply_edge_tracking"
    /\ LET r == apply_edge_tracking(in_np_arr)
       IN  /\ strong_pxls' = r.strong
           /\ weak_pxls' = r.weak
           /\ ret' = r.ret
    /\ pc' = "done"
    /\ UNCHANGED <<in_np_arr, conv_kernel_np, arr_padded, err, calls, prev, file, enc,
                   hdr>>

SpecTrack == InitTrack /\ [][ApplyEdgeTracking]_vars

-----------------------------------------------------------------------------
(* Normalization stage: the function is applied, then applied again to its  *)
(* own result                                                               *)

InitRect ==
    /\ pc = "rectify_and_clip"
    /\ IsInputRaster(in_np_arr, MaxRectDim, {0}, RectVals)
    /\ Idle

RectifyAndClip ==
    /\ pc = "rectify_and_clip"
    /\ ret' = rectify_and_clip(IF calls = 0 THEN in_np_arr ELSE ret)
    /\ prev' = ret
    /\ calls' = calls + 1
    /\ pc' = IF calls = 0 THEN "rectify_and_clip" ELSE "done"
    /\ UNCHANGED <<in_np_arr, conv_kernel_np, arr_padded, strong_pxls, weak_pxls,
                   err, file, enc, hdr>>

SpecRect == InitRect /\ [][RectifyAndClip]_vars

-----------------------------------------------------------------------------
(* PGM writer and reader.  A behaviour either writes a raster and reads the *)
(* file back, or reads a file put together from a header layout, declared   *)
(* dimensions and the raw bytes that follow the header.                     *)

PgmVals == {0, 10, 65, 128, 255}
Encodings == {"utf-8", "latin-1"}
RasterBytes == {10, 55, 200}

TAB == 9
CR == 13
Num(n) == DecStr(n)
Line(bs) == bs \o <<NL>>
Comment == <<HASH, SP, 99>>

\* header layouts whose fourth string ends a line, so that the raster starts
\* on a line of its own
LineLayouts == {"lines", "one_line", "comments", "padded"}
\* layouts whose first four strings are P5 and three decimal numbers
FourStringLayouts == LineLayouts \cup {"extra_string", "single_space"}
Layouts == FourStringLayouts \cup {"short", "bad_magic", "bad_height", "bad_maxval"}

Header(layout, wd, ht) ==
    CASE layout = "lines" ->
           Line(MAGIC_P5) \o Line(Num(wd)) \o Line(Num(ht)) \o Line(Num(MAX_VAL))
      [] layout = "one_line" ->
           Line(MAGIC_P5 \o <<SP>> \o Num(wd) \o <<SP>> \o Num(ht) \o <<SP>> \o Num(MAX_VAL))
      [] layout = "comments" ->
           Line(Comment) \o Line(MAGIC_P5) \o Line(<<SP>> \o Comment)
           \o Line(Num(wd) \o <<SP>> \o Num(ht)) \o Line(Num(MAX_VAL))
      [] layout = "padded" ->
           Line(MAGIC_P5) \o Line(<<48>> \o Num(wd) \o <<TAB, 48>> \o Num(ht) \o <<CR>>)
           \o Line(Num(MAX_VAL))
      [] layout = "extra_string" ->
           Line(MAGIC_P5 \o <<SP>> \o Num(wd) \o <<SP>> \o Num(ht) \o <<SP>> \o Num(MAX_VAL)
                \o <<SP, 55>>)
      [] layout = "single_space" ->
           MAGIC_P5 \o <<NL>> \o Num(wd) \o <<SP>> \o Num(ht) \o <<NL>> \o Num(MAX_VAL) \o <<SP>>
      [] layout = "short" ->
           Line(MAGIC_P5) \o Line(Num(wd)) \o Line(Num(ht))
      [] layout = "bad_magic" ->
           Line(<<80, 50>>) \o Line(Num(wd) \o <<SP>> \o Num(ht)) \o Line(Num(MAX_VAL))
      [] layout = "bad_height" ->
           Line(MAGIC_P5) \o Line(Num(wd) \o <<SP, 45>> \o Num(ht)) \o Line(Num(MAX_VAL))
      [] layout = "bad_maxval" ->
           Line(MAGIC_P5) \o Line(Num(wd) \o <<SP>> \o Num(ht)) \o Line(<<120>>)

ByteSeqs(n) == UNION {[1..k -> RasterBytes] : k \in 0..n}

InitWrite ==
    /\ pc = "convert_np_arr_to_pgm"
    /\ IsInputRaster(in_np_arr, MaxPgmDim, {0}, PgmVals)
    /\ enc \in Encodings
    /\ file = << >> /\ hdr = NoHdr

InitRead ==
    /\ pc = "convert_pgm_to_np_arr"
    /\ in_np_arr = NoArr /\ enc = "none"
    /\ \E layout \in Layouts, wd \in 1..MaxPgmDim, ht \in 1..MaxPgmDim :
         \E raster \in ByteSeqs(MaxRasterLen) :
            /\ hdr = [layout |-> layout, wd |-> wd, ht |-> ht, raster |-> raster]
            /\ file = Header(layout, wd, ht) \o raster

InitPgm ==
    /\ InitWrite \/ InitRead
    /\ conv_kernel_np = NoArr /\ arr_padded = NoArr
    /\ strong_pxls = NoArr /\ weak_pxls = NoArr
    /\ ret = NoArr /\ err = "none" /\ calls = 0 /\ prev = NoArr

ConvertNpArrToPgm ==
    /\ pc = "convert_np_arr_to_pgm"
    /\ file' = convert_np_arr_to_pgm(in_np_arr, enc)
    /\ pc' = "convert_pgm_to_np_arr"
    /\ UNCHANGED <<in_np_arr, conv_kernel_np, arr_padded, strong_pxls, weak_pxls,
                   ret, err, calls, prev, enc, hdr>>

ConvertPgmToNpArr ==
    /\ pc = "convert_pgm_to_np_arr"
    /\ LET r == convert_pgm_to_np_arr(file)
       IN  /\ err' = r.err
           /\ ret' = r.ret
    /\ pc' = "done"
    /\ UNCHANGED <<in_np_arr, conv_kernel_np, arr_padded, strong_pxls, weak_pxls,
                   calls, prev, file, enc, hdr>>

NextPgm == ConvertNpArrToPgm \/ ConvertPgmToNpArr

SpecPgm == InitPgm /\ [][NextPgm]_vars

-----------------------------------------------------------------------------
(* Properties of the pixel stages *)

Abs(v) == IF v < 0 THEN -v ELSE v
Rows(a) == 0..(Height(a) - 1)
Cols(a) == 0..(Width(a) - 1)
SameShape(a, b) == Shape(a) = Shape(b)

\* sample (y, x) of the edge-replicated view of a: indices clamped into a
EdgeView(a, y, x) == At(a, Clamp(y, 0, Height(a) - 1), Clamp(x, 0, Width(a) - 1))

\* kernel applied to the 3x3 neighbourhood centred at (y, x)
CentredSum(a, k, y, x) ==
    LET term(d) == At(k, d[1] + 1, d[2] + 1) * EdgeView(a, y + d[1], x + d[2])
    IN  term(<<-1, -1>>) + term(<<-1, 0>>) + term(<<-1, 1>>)
      + term(<<0, -1>>) + term(<<0, 0>>) + term(<<0, 1>>)
      + term(<<1, -1>>) + term(<<1, 0>>) + term(<<1, 1>>)

\* C1: with a 3x3 kernel, the output sample at EVERY position (y, x), the
\* last two rows and columns included, is the kernel's product sum over the
\* 3x3 neighbourhood centred at (y, x) in the edge-replicated input.
C1_ConvEveryPixel ==
    (pc = "done" /\ Shape(conv_kernel_np) = <<3, 3>>) =>
        /\ err = "none"
        /\ SameShape(ret, in_np_arr)
        /\ \A y \in Rows(in_np_arr), x \in Cols(in_np_arr) :
               At(ret, y, x) = CentredSum(in_np_arr, conv_kernel_np, y, x)

\* C5: a kernel that is not 3x3 is rejected with NotImplementedError, before
\* the raster is padded or convolved, and nothing is returned.
C5_KernelShapeRejected ==
    (pc = "done" /\ Shape(conv_kernel_np) # <<3, 3>>) =>
        /\ err = "NotImplementedError"
        /\ arr_padded = NoArr
        /\ ret = NoArr

\* (y, x) is the maximum or the minimum of its own horizontal or vertical 3-run
OwnExtremal(a, y, x) ==
    LET c == At(a, y, x)
        h_run == {At(a, y, x - 1), c, At(a, y, x + 1)}
        v_run == {At(a, y - 1, x), c, At(a, y + 1, x)}
    IN  \/ \A v \in h_run : c >= v
        \/ \A v \in h_run : c <= v
        \/ \A v \in v_run : c >= v
        \/ \A v \in v_run : c <= v

\* C2: thinning keeps an interior pixel exactly when it is extremal in its
\* OWN horizontal or vertical 3-run and zeroes it otherwise; the outermost
\* ring is zero.
C2_ThinOwnRuns ==
    pc = "done" =>
        /\ SameShape(ret, in_np_arr)
        /\ \A y \in Rows(in_np_arr), x \in Cols(in_np_arr) :
               At(ret, y, x) = IF Interior(in_np_arr, y, x) /\ OwnExtremal(in_np_arr, y, x)
                               THEN At(in_np_arr, y, x)
                               ELSE 0

\* C6: the thinned raster is an elementwise subset of the input: every
\* output sample is 0 or the input sample at the same position.
C6_ThinSubset ==
    pc = "done" =>
        /\ SameShape(ret, in_np_arr)
        /\ \A y \in Rows(in_np_arr), x \in Cols(in_np_arr) :
               At(ret, y, x) \in {0, At(in_np_arr, y, x)}

\* thinning ran, kept a nonzero interior sample and zeroed another one
C6_Witness ==
    /\ pc = "done"
    /\ \E y \in Rows(in_np_arr), x \in Cols(in_np_arr) :
           Interior(in_np_arr, y, x) /\ At(ret, y, x) # 0
    /\ \E y \in Rows(in_np_arr), x \in Cols(in_np_arr) :
           Interior(in_np_arr, y, x) /\ At(in_np_arr, y, x) # 0 /\ At(ret, y, x) = 0

IsStrong(v) == Abs(v) > THRESH_HI
IsWeak(v) == Abs(v) > THRESH_LO

\* some in-bounds 8-neighbour of (y, x) is a strong pixel of a
StrongNeighbour(a, y, x) ==
    \E i \in (y - 1)..(y + 1), j \in (x - 1)..(x + 1) :
        /\ <<i, j>> # <<y, x>>
        /\ i \in Rows(a) /\ j \in Cols(a)
        /\ IsStrong(At(a, i, j))

\* C3: the hysteresis output has no sample v with 0 < |v| <= THRESH_LO, and
\* every nonzero output sample sits on a strong input pixel or on a weak
\* input pixel with a strong 8-neighbour.
C3_TrackThresholds ==
    pc = "done" =>
        \A y \in Rows(in_np_arr), x \in Cols(in_np_arr) :
            LET v == At(ret, y, x)
                u == At(in_np_arr, y, x)
            IN  /\ ~(0 < Abs(v) /\ Abs(v) <= THRESH_LO)
                /\ v # 0 => \/ IsStrong(u)
                            \/ IsWeak(u) /\ StrongNeighbour(in_np_arr, y, x)

\* C9: the strong grid and the weak grid are disjoint, so every output
\* sample is 0 or exactly the input sample at the same position.
C9_TrackDisjoint ==
    pc = "done" =>
        \A y \in Rows(in_np_arr), x \in Cols(in_np_arr) :
            /\ ~(At(strong_pxls, y, x) # 0 /\ At(weak_pxls, y, x) # 0)
            /\ At(ret, y, x) \in {0, At(in_np_arr, y, x)}

\* C8: rectify_and_clip maps every sample v to min(|v|, MAX_VAL), and
\* applying it to its own result changes nothing.
C8_RectIdempotent ==
    /\ calls = 1 =>
           /\ SameShape(ret, in_np_arr)
           /\ \A y \in Rows(in_np_arr), x \in Cols(in_np_arr) :
                  LET m == Abs(At(in_np_arr, y, x))
                  IN  At(ret, y, x) = IF m > MAX_VAL THEN MAX_VAL ELSE m
    /\ calls = 2 => ret = prev

\* the function ran twice on a raster with a negative sample beyond the clip
C8_Witness ==
    /\ calls = 2
    /\ \E y \in Rows(in_np_arr), x \in Cols(in_np_arr) :
           At(in_np_arr, y, x) < -MAX_VAL /\ At(ret, y, x) = MAX_VAL

-----------------------------------------------------------------------------
(* Properties of the PGM writer and reader *)

\* C4: a raster with samples in 0..255 that is written and read back comes
\* back with the same width, height and sample at every position.
C4_RoundTrip ==
    (pc = "done" /\ in_np_arr # NoArr) =>
        /\ err = "none"
        /\ ret = in_np_arr

\* sample of row y, column x (counted from 1) that wd-wide rows cut from the
\* bytes raw must hold: the byte at that row-major position, 0 past the end
ExpectedSample(raw, wd, y, x) ==
    IF (y - 1) * wd + x <= Len(raw) THEN raw[(y - 1) * wd + x] ELSE 0

C10_FirstFourStrings ==
    (pc = "done" /\ hdr.layout \in FourStringLayouts) =>
        /\ err = "none"
        /\ Shape(ret) = <<hdr.ht, hdr.wd>>

====
